---- MODULE Spec2Model ----
(***************************************************************************)
(* WebTUIO controller: the TUIO service (session ids, fseq, message        *)
(* builders, cursor physics, packet generation), the TouchSurface          *)
(* component (cursor map, touch and mouse handlers, periodic loop,         *)
(* sendBundle) and the App component (socket and running state).           *)
(*                                                                         *)
(* Numbers.  Times are milliseconds (performance.now()), integers here.    *)
(* Positions and velocities are exact rationals <<num, den>> in lowest     *)
(* terms; the code's IEEE doubles are idealised to the reals.  The         *)
(* acceleration sqrt(dvx^2 + dvy^2) / dt is irrational in general: it is   *)
(* kept as the record [dvx, dvy, dt] of the operands of that expression.   *)
(***************************************************************************)
EXTENDS Integers, Sequences, FiniteSets, TLC

VARIABLES
    settings,            \* App: settings state (AppSettings)
    isRunning,           \* App: isRunning state; TouchSurface is mounted iff TRUE
    socket,              \* App: socket state: "null" or the readyState of the WebSocket held
    otherWs,             \* a WebSocket created by an earlier handleStart, no longer held in `socket`
    sessionIdCounter,    \* tuioService: module-level session id counter
    fseq,                \* tuioService: module-level frame sequence counter
    cursors,             \* TouchSurface: cursorsRef.current, a Map in insertion order
    mouseIdRef,          \* TouchSurface: mouseIdRef.current ("null" or the key)
    lastMouseMoveTimeRef,    \* TouchSurface: lastMouseMoveTimeRef.current
    lastPeriodicUpdateRef,   \* TouchSurface: lastPeriodicUpdateRef.current
    now,                 \* the clock read by performance.now()
    frame,               \* the messages built by the last step that had an effect (<<>> if none)
    wire,                \* <<payload>> handed to socket.send by that step (<<>> if none)
    lastEvent,           \* history: the name of that step
    lastSample,          \* history: per key, the last move sample received while its cursor exists
    sentFseq,            \* history: fseq values of the last two frames handed to a socket
    unsentSince,         \* history: frames built and not sent since the last sent frame
    fseqCalls,           \* history: calls of createFseqMessage since the page loaded, <<hi, lo>> base 2^16
    acquired,            \* history: calls of getNextSessionId in this run
    bornAt,              \* history: per key, the value of `acquired` when its cursor was created
    events,              \* input events that built a frame in this run (bounds the run)
    extras               \* clock advances, settings changes and second starts in this run
                         \* (bounds the run)

vars == <<settings, isRunning, socket, otherWs, sessionIdCounter, fseq, cursors,
          mouseIdRef, lastMouseMoveTimeRef, lastPeriodicUpdateRef, now, frame, wire,
          lastEvent, lastSample, sentFseq, unsentSince, fseqCalls, acquired, bornAt,
          events, extras>>

-----------------------------------------------------------------------------
(* Bounds of the model *)

MaxEvents == 2
MaxExtras == 1
StartTime == 100

(* Program constants *)

SESSION_ID_MAX == 10000
MAX_INT31 == 2147483647
MOUSE_MOVE_THROTTLE == 16
PERIODIC_UPDATE_INTERVAL == 33
MS_PER_SECOND == 1000

TUIO_PROFILE == "/tuio/2Dcur"
SOURCE_NAME == "WebTUIO@webclient"

(* The environment: touch identifiers, the element's bounding rectangle,   *)
(* pointer positions (clientX, clientY) and the clock's steps.             *)

TouchIds == {"0", "1"}
MouseKey == "mouse-0"
Keys == TouchIds \cup {MouseKey}

RectLeft == 0
RectTop == 0
RectWidth == 5
RectHeight == 5

Points == {<<-1, 1>>, <<6, 7>>}
Deltas == {1, 16, 33}
Scales == {1, 1920}

-----------------------------------------------------------------------------
(* Exact rationals *)

RECURSIVE GCD(_, _)
GCD(a, b) == IF b = 0 THEN a ELSE GCD(b, a % b)

Abs(n) == IF n < 0 THEN -n ELSE n

Rat(n, d) ==
    LET g == GCD(Abs(n), Abs(d))
        s == IF d < 0 THEN -1 ELSE 1
    IN  <<(s * n) \div g, (s * d) \div g>>

RatInt(n) == <<n, 1>>
RatSub(p, q) == Rat(p[1] * q[2] - q[1] * p[2], p[2] * q[2])
RatDiv(p, q) == Rat(p[1] * q[2], p[2] * q[1])
RatLeq(p, q) == p[1] * q[2] <= q[1] * p[2]
RatMax(p, q) == IF RatLeq(p, q) THEN q ELSE p
RatMin(p, q) == IF RatLeq(p, q) THEN p ELSE q

-----------------------------------------------------------------------------
(* The JavaScript Map held in cursorsRef: a sequence of entries in         *)
(* insertion order.  set() on a present key keeps its place.               *)

MapHas(m, k) == \E i \in 1..Len(m) : m[i].key = k
MapGet(m, k) == m[CHOOSE i \in 1..Len(m) : m[i].key = k].cur
MapSet(m, k, c) ==
    IF MapHas(m, k)
    THEN [i \in 1..Len(m) |-> IF m[i].key = k THEN [key |-> k, cur |-> c] ELSE m[i]]
    ELSE Append(m, [key |-> k, cur |-> c])
\* Faulty variant: the map is cleared.
MapDelete_All(m, k) == <<>>
\* Faulty variant: nothing is deleted.
MapDelete_Keep(m, k) == m
MapDelete(m, k) == SelectSeq(m, LAMBDA e : e.key # k)
MapValues(m) == [i \in 1..Len(m) |-> m[i].cur]
MapKeys(m) == {m[i].key : i \in 1..Len(m)}

-----------------------------------------------------------------------------
(* services/tuioService *)

\* Faulty variant: the increment is left out.
getNextSessionId_NoIncrement(counter) ==
    IF counter > SESSION_ID_MAX THEN 0 ELSE counter

\* Faulty variant: the comparison is >= in place of >, so 10000 is skipped.
getNextSessionId_WrapEarly(counter) ==
    IF counter + 1 >= SESSION_ID_MAX THEN 0 ELSE counter + 1

\* sessionIdCounter++; if (sessionIdCounter > 10000) sessionIdCounter = 0;
\* the value returned is the new value of the counter.
getNextSessionId(counter) ==
    IF counter + 1 > SESSION_ID_MAX THEN 0 ELSE counter + 1

createSourceMessage ==
    [address |-> TUIO_PROFILE, args |-> <<"source", SOURCE_NAME>>]

createAliveMessage(activeIds) ==
    [address |-> TUIO_PROFILE, args |-> <<"alive">> \o activeIds]

\* Faulty variant: the modulus is 2147483647, so the counter wraps one early.
FseqNext_ModMaxInt(f) ==
    IF f = MAX_INT31 THEN 1 ELSE (f + 1) % MAX_INT31

\* Faulty variant: the counter is advanced twice for one message.
FseqNext_Twice(f) ==
    IF f >= MAX_INT31 - 1 THEN f - (MAX_INT31 - 1) ELSE f + 2

\* fseq = (fseq + 1) % 2147483648.  TLC's integers end at 2^31 - 1, so the
\* sum is not formed when it would be 2^31, where the remainder is 0.
FseqNext(f) ==
    IF f = MAX_INT31 THEN 0 ELSE f + 1

createFseqMessage(f) ==
    [address |-> TUIO_PROFILE, args |-> <<"fseq", FseqNext(f)>>]

\* Faulty variant: the position is multiplied by settings.coordinateScale.
createSetMessage_Scaled(cursor) ==
    [address |-> TUIO_PROFILE,
     args |-> <<"set", cursor.sessionId,
                Rat(cursor.x[1] * settings.coordinateScale, cursor.x[2]),
                Rat(cursor.y[1] * settings.coordinateScale, cursor.y[2]),
                cursor.vx, cursor.vy, cursor.a>>]

\* Math.floor of a session id, which is always an integer, and Number() of
\* fields that are already numbers.  The function has one parameter: a
\* second argument (coordinateScale) passed by a caller is dropped.
createSetMessage(cursor) ==
    [address |-> TUIO_PROFILE,
     args |-> <<"set", cursor.sessionId, cursor.x, cursor.y,
                cursor.vx, cursor.vy, cursor.a>>]

AccelZero == [dvx |-> RatInt(0), dvy |-> RatInt(0), dt |-> RatInt(1)]

\* Faulty variant: lastTime is given the time elapsed.
updateCursorPhysics_LastTimeElapsed(current, newX, newY, t) ==
    LET dt == Rat(t - current.lastTime, MS_PER_SECOND)
    IN  IF RatLeq(dt, Rat(1, 1000))
        THEN [current EXCEPT !.x = newX, !.y = newY,
                             !.lastTime = t - current.lastTime]
        ELSE LET newVx == RatDiv(RatSub(newX, current.x), dt)
                 newVy == RatDiv(RatSub(newY, current.y), dt)
             IN  [sessionId |-> current.sessionId,
                  x |-> newX, y |-> newY,
                  vx |-> newVx, vy |-> newVy,
                  a |-> [dvx |-> RatSub(newVx, current.vx),
                         dvy |-> RatSub(newVy, current.vy),
                         dt |-> dt],
                  lastTime |-> t - current.lastTime]

\* Faulty variant: the cursor returned has a session id of its own.
updateCursorPhysics_NewSession(current, newX, newY, t) ==
    LET dt == Rat(t - current.lastTime, MS_PER_SECOND)
    IN  IF RatLeq(dt, Rat(1, 1000))
        THEN [current EXCEPT !.sessionId = @ + 1,
                             !.x = newX, !.y = newY, !.lastTime = t]
        ELSE LET newVx == RatDiv(RatSub(newX, current.x), dt)
                 newVy == RatDiv(RatSub(newY, current.y), dt)
             IN  [sessionId |-> current.sessionId + 1,
                  x |-> newX, y |-> newY,
                  vx |-> newVx, vy |-> newVy,
                  a |-> [dvx |-> RatSub(newVx, current.vx),
                         dvy |-> RatSub(newVy, current.vy),
                         dt |-> dt],
                  lastTime |-> t]

\* Faulty variant: the guard is dt < 0.001.
updateCursorPhysics_StrictGuard(current, newX, newY, t) ==
    LET dt == Rat(t - current.lastTime, MS_PER_SECOND)
    IN  IF dt # Rat(1, 1000) /\ RatLeq(dt, Rat(1, 1000))
        THEN [current EXCEPT !.x = newX, !.y = newY, !.lastTime = t]
        ELSE LET newVx == RatDiv(RatSub(newX, current.x), dt)
                 newVy == RatDiv(RatSub(newY, current.y), dt)
             IN  [sessionId |-> current.sessionId,
                  x |-> newX, y |-> newY,
                  vx |-> newVx, vy |-> newVy,
                  a |-> [dvx |-> RatSub(newVx, current.vx),
                         dvy |-> RatSub(newVy, current.vy),
                         dt |-> dt],
                  lastTime |-> t]

\* Faulty variant: the velocity is divided by the milliseconds elapsed.
updateCursorPhysics_Millis(current, newX, newY, t) ==
    LET dt == Rat(t - current.lastTime, MS_PER_SECOND)
        ms == RatInt(t - current.lastTime)
    IN  IF RatLeq(dt, Rat(1, 1000))
        THEN [current EXCEPT !.x = newX, !.y = newY, !.lastTime = t]
        ELSE LET newVx == RatDiv(RatSub(newX, current.x), ms)
                 newVy == RatDiv(RatSub(newY, current.y), ms)
             IN  [sessionId |-> current.sessionId,
                  x |-> newX, y |-> newY,
                  vx |-> newVx, vy |-> newVy,
                  a |-> [dvx |-> RatSub(newVx, current.vx),
                         dvy |-> RatSub(newVy, current.vy),
                         dt |-> dt],
                  lastTime |-> t]

updateCursorPhysics(current, newX, newY, t) ==
    LET dt == Rat(t - current.lastTime, MS_PER_SECOND)
    IN  IF RatLeq(dt, Rat(1, 1000))
        THEN [current EXCEPT !.x = newX, !.y = newY, !.lastTime = t]
        ELSE LET dx == RatSub(newX, current.x)
                 dy == RatSub(newY, current.y)
                 newVx == RatDiv(dx, dt)
                 newVy == RatDiv(dy, dt)
                 newA == [dvx |-> RatSub(newVx, current.vx),
                          dvy |-> RatSub(newVy, current.vy),
                          dt |-> dt]
             IN  [sessionId |-> current.sessionId,
                  x |-> newX, y |-> newY,
                  vx |-> newVx, vy |-> newVy, a |-> newA,
                  lastTime |-> t]

\* Faulty variant: the velocity fields are filled from the position.
createNewCursor_VelocityFromPosition(x, y, counter, t) ==
    [sessionId |-> getNextSessionId(counter),
     x |-> x, y |-> y,
     vx |-> x, vy |-> y, a |-> AccelZero,
     lastTime |-> t]

createNewCursor(x, y, counter, t) ==
    [sessionId |-> getNextSessionId(counter),
     x |-> x, y |-> y,
     vx |-> RatInt(0), vy |-> RatInt(0), a |-> AccelZero,
     lastTime |-> t]

\* Faulty variant: without fullBundle, the first message is returned
\* whenever there is one.
generatePacket_FirstOnly(messages, s, t) ==
    IF s.fullBundle
    THEN [timeTag |-> t, packets |-> messages]
    ELSE IF Len(messages) >= 1
         THEN messages[1]
         ELSE [bundle |-> TRUE, packets |-> messages]

\* Faulty variant: without fullBundle, one message is wrapped like several.
generatePacket_NoSingle(messages, s, t) ==
    IF s.fullBundle
    THEN [timeTag |-> t, packets |-> messages]
    ELSE [bundle |-> TRUE, packets |-> messages]

\* Faulty variant: the bundle built without fullBundle carries a timeTag too.
generatePacket_TaggedFallback(messages, s, t) ==
    IF s.fullBundle
    THEN [timeTag |-> t, packets |-> messages]
    ELSE IF Len(messages) = 1
         THEN messages[1]
         ELSE [bundle |-> TRUE, timeTag |-> t, packets |-> messages]

\* JSON.stringify of the object built; the text is kept as that object.
\* Date.now() reads the same clock as performance.now() here.
generatePacket(messages, s, t) ==
    IF s.fullBundle
    THEN [timeTag |-> t, packets |-> messages]
    ELSE IF Len(messages) = 1
         THEN messages[1]
         ELSE [bundle |-> TRUE, packets |-> messages]

-----------------------------------------------------------------------------
(* components/TouchSurface *)

Clamp01(r) == RatMax(RatInt(0), RatMin(RatInt(1), r))

\* normX, normY of a pointer position pt = <<clientX, clientY>>
NormX(pt) == Clamp01(Rat(pt[1] - RectLeft, RectWidth))
\* Faulty variant: normY is not clamped.
NormY_NoClamp(pt, s) ==
    LET normY == Rat(pt[2] - RectTop, RectHeight)
    IN  IF s.invertY THEN RatSub(RatInt(1), normY) ELSE normY

NormY(pt, s) ==
    LET normY == Clamp01(Rat(pt[2] - RectTop, RectHeight))
    IN  IF s.invertY THEN RatSub(RatInt(1), normY) ELSE normY

\* Faulty variant: alive is left out when no cursor is active.
BuildFrame_NoEmptyAlive(m, f) ==
    <<createSourceMessage>>
    \o [i \in 1..Len(m) |-> createSetMessage(MapValues(m)[i])]
    \o (IF Len(m) = 0 THEN <<>>
        ELSE <<createAliveMessage([i \in 1..Len(m) |-> MapValues(m)[i].sessionId])>>)
    \o <<createFseqMessage(f)>>

\* Faulty variant: alive is pushed before the set messages.
BuildFrame_AliveFirst(m, f) ==
    <<createSourceMessage>>
    \o <<createAliveMessage([i \in 1..Len(m) |-> MapValues(m)[i].sessionId])>>
    \o [i \in 1..Len(m) |-> createSetMessage(MapValues(m)[i])]
    \o <<createFseqMessage(f)>>

\* What every handler and the loop build: source, one set per cursor of
\* the map, alive with the session ids of the map, fseq.
BuildFrame(m, f) ==
    <<createSourceMessage>>
    \o [i \in 1..Len(m) |-> createSetMessage(MapValues(m)[i])]
    \o <<createAliveMessage([i \in 1..Len(m) |-> MapValues(m)[i].sessionId])>>
    \o <<createFseqMessage(f)>>

\* Faulty variant: readyState is not looked at.
sendBundle_AnyReadyState(messages) ==
    IF socket # "null"
    THEN <<generatePacket(messages, settings, now)>>
    ELSE <<>>

\* sendBundle: the payload handed to socket.send, if any
sendBundle(messages) ==
    IF socket # "null" /\ socket = "open"
    THEN <<generatePacket(messages, settings, now)>>
    ELSE <<>>

\* The changedTouches.forEach of processTouch, over the touches
\* <<[identifier, pt], ...>> in order.  st carries the map and the session
\* counter, and the history of the run beside them.

\* type === 'start'
TouchStart(st, touch) ==
    LET idStr == touch.identifier
        newCursor == createNewCursor(NormX(touch.pt), NormY(touch.pt, settings),
                                     st.counter, now)
    IN  [st EXCEPT !.cursors = MapSet(@, idStr, newCursor),
                   !.counter = getNextSessionId(@),
                   !.born = [@ EXCEPT ![idStr] = st.acquired + 1],
                   !.acquired = @ + 1,
                   !.sample = [@ EXCEPT ![idStr] = <<>>]]

\* Faulty variant: a move for a key that is not in the map creates a cursor.
TouchMove_Upsert(st, touch) ==
    LET idStr == touch.identifier
        normX == NormX(touch.pt)
        normY == NormY(touch.pt, settings)
    IN  IF MapHas(st.cursors, idStr)
        THEN [st EXCEPT !.cursors = MapSet(@, idStr,
                            updateCursorPhysics(MapGet(st.cursors, idStr),
                                                normX, normY, now)),
                        !.sample = [@ EXCEPT ![idStr] = <<normX, normY>>]]
        ELSE TouchStart(st, touch)

\* type === 'move'
TouchMove(st, touch) ==
    LET idStr == touch.identifier
        normX == NormX(touch.pt)
        normY == NormY(touch.pt, settings)
    IN  IF MapHas(st.cursors, idStr)
        THEN [st EXCEPT !.cursors = MapSet(@, idStr,
                            updateCursorPhysics(MapGet(st.cursors, idStr),
                                                normX, normY, now)),
                        !.sample = [@ EXCEPT ![idStr] = <<normX, normY>>]]
        ELSE st

\* Faulty variant: delete is called with the numeric identifier, which is
\* not a key of the map, so nothing is removed.
TouchEnd_NumericKey(st, touch) ==
    st

\* type === 'end' || type === 'cancel'
TouchEnd(st, touch) ==
    LET idStr == touch.identifier
    IN  [st EXCEPT !.cursors = MapDelete(@, idStr),
                   !.born = [@ EXCEPT ![idStr] = 0],
                   !.sample = [@ EXCEPT ![idStr] = <<>>]]

ApplyTouch(st, touch, type) ==
    CASE type = "start" -> TouchStart(st, touch)
      [] type = "move" -> TouchMove(st, touch)
      [] type \in {"end", "cancel"} -> TouchEnd(st, touch)

RECURSIVE ApplyTouches(_, _, _)
ApplyTouches(st, touches, type) ==
    IF touches = <<>> THEN st
    ELSE ApplyTouches(ApplyTouch(st, Head(touches), type), Tail(touches), type)

-----------------------------------------------------------------------------
(* History bookkeeping, common to the steps *)

\* fseqCalls counts in two limbs, <<hi, lo>> standing for hi * 2^16 + lo
CallsNext(c) == IF c[2] = 65535 THEN <<c[1] + 1, 0>> ELSE <<c[1], c[2] + 1>>

NoKeys == [k \in Keys |-> <<>>]
NoBirths == [k \in Keys |-> 0]

\* The tail of every handler that builds a frame over the map m:
\* createFseqMessage advances fseq, sendBundle hands the payload over.
Emit(m) ==
    LET messages == BuildFrame(m, fseq)
        payload == sendBundle(messages)
    IN  /\ frame' = messages
        /\ wire' = payload
        /\ fseq' = FseqNext(fseq)
        /\ fseqCalls' = CallsNext(fseqCalls)
        /\ sentFseq' = IF payload # <<>> THEN <<sentFseq[2], FseqNext(fseq)>> ELSE sentFseq
        /\ unsentSince' = IF payload # <<>> THEN 0 ELSE unsentSince + 1

NoEmit ==
    /\ frame' = <<>>
    /\ wire' = <<>>
    /\ UNCHANGED <<fseq, fseqCalls, sentFseq, unsentSince>>

appVars == <<settings, isRunning, socket, otherWs>>
refVars == <<cursors, mouseIdRef, lastMouseMoveTimeRef, lastPeriodicUpdateRef>>
histVars == <<lastSample, acquired, bornAt>>
obsVars == <<frame, wire, lastEvent, fseq, fseqCalls, sentFseq, unsentSince>>

-----------------------------------------------------------------------------
(* TouchSurface: the event handlers.  They are attached while the          *)
(* component is mounted (isRunning).                                       *)

\* changedTouches: one touch, or the two touches at two places.  The end
\* and cancel branches do not read the position.
TouchPoints(type) == IF type \in {"start", "move"} THEN Points ELSE {<<1, 1>>}

TouchLists(type) ==
    {<<[identifier |-> i, pt |-> p]>> : i \in TouchIds, p \in TouchPoints(type)}
    \cup {l \in {<<[identifier |-> "0", pt |-> p], [identifier |-> "1", pt |-> q]>> :
                    p \in Points, q \in Points} :
            IF type \in {"start", "move"} THEN l[1].pt # l[2].pt ELSE l[1].pt = l[2].pt}

\* Faulty variant: createFseqMessage is called in the forEach, once per
\* changed touch; the frame sent is the last one built.
processTouch_FramePerTouch(type, touches) ==
    /\ isRunning
    /\ events < MaxEvents
    /\ LET st == ApplyTouches([cursors |-> cursors, counter |-> sessionIdCounter,
                               born |-> bornAt,
                               acquired |-> acquired, sample |-> lastSample],
                              touches, type)
           two == Len(touches) = 2
           f == IF two THEN FseqNext(fseq) ELSE fseq
           messages == BuildFrame(st.cursors, f)
           payload == sendBundle(messages)
       IN  /\ cursors' = st.cursors
           /\ sessionIdCounter' = st.counter
           /\ acquired' = st.acquired
           /\ bornAt' = st.born
           /\ lastSample' = st.sample
           /\ lastEvent' = IF type = "cancel" THEN "touchend" ELSE "touch" \o type
           /\ frame' = messages
           /\ wire' = payload
           /\ fseq' = FseqNext(f)
           /\ fseqCalls' = IF two THEN CallsNext(CallsNext(fseqCalls))
                           ELSE CallsNext(fseqCalls)
           /\ sentFseq' = IF payload # <<>> THEN <<sentFseq[2], FseqNext(f)>> ELSE sentFseq
           /\ unsentSince' = IF payload # <<>> THEN 0 ELSE unsentSince + 1
    /\ events' = events + 1
    /\ UNCHANGED <<appVars, mouseIdRef, lastMouseMoveTimeRef, lastPeriodicUpdateRef,
                   now, extras>>

processTouch(type, touches) ==
    /\ isRunning
    /\ events < MaxEvents
    /\ LET st == ApplyTouches([cursors |-> cursors, counter |-> sessionIdCounter,
                               born |-> bornAt,
                               acquired |-> acquired, sample |-> lastSample],
                              touches, type)
       IN  /\ cursors' = st.cursors
           /\ sessionIdCounter' = st.counter
           /\ acquired' = st.acquired
           /\ bornAt' = st.born
           /\ lastSample' = st.sample
           /\ lastEvent' = IF type = "cancel" THEN "touchend" ELSE "touch" \o type
           /\ Emit(st.cursors)
    /\ events' = events + 1
    /\ UNCHANGED <<appVars, mouseIdRef, lastMouseMoveTimeRef, lastPeriodicUpdateRef,
                   now, extras>>

handleMouseDown(button, pt) ==
    /\ isRunning
    /\ IF button # 0
       THEN UNCHANGED <<refVars, sessionIdCounter, histVars, obsVars, events>>
       ELSE LET normX == NormX(pt)
                normY == NormY(pt, settings)
                idStr == MouseKey
                newCursor == createNewCursor(normX, normY, sessionIdCounter, now)
                m == MapSet(cursors, idStr, newCursor)
            IN  /\ events < MaxEvents
                /\ events' = events + 1
                /\ mouseIdRef' = idStr
                /\ cursors' = m
                /\ sessionIdCounter' = getNextSessionId(sessionIdCounter)
                /\ acquired' = acquired + 1
                /\ bornAt' = [bornAt EXCEPT ![idStr] = acquired + 1]
                /\ lastSample' = [lastSample EXCEPT ![idStr] = <<>>]
                /\ lastEvent' = "mousedown"
                /\ Emit(m)
                /\ UNCHANGED <<lastMouseMoveTimeRef, lastPeriodicUpdateRef>>
    /\ UNCHANGED <<appVars, now, extras>>

handleMouseMove(pt) ==
    /\ isRunning
    /\ LET normX == NormX(pt)
           normY == NormY(pt, settings)
       IN  IF mouseIdRef = "null"
           THEN UNCHANGED <<refVars, lastSample, obsVars, events>>
           ELSE IF now - lastMouseMoveTimeRef < MOUSE_MOVE_THROTTLE
           THEN /\ lastEvent' = "mousemove-throttled"
                /\ lastSample' = IF MapHas(cursors, mouseIdRef)
                                 THEN [lastSample EXCEPT ![mouseIdRef] = <<normX, normY>>]
                                 ELSE lastSample
                /\ NoEmit
                /\ UNCHANGED <<refVars, events>>
           ELSE /\ lastMouseMoveTimeRef' = now
                /\ IF MapHas(cursors, mouseIdRef)
                   THEN LET updated == updateCursorPhysics(MapGet(cursors, mouseIdRef),
                                                           normX, normY, now)
                            m == MapSet(cursors, mouseIdRef, updated)
                        IN  /\ events < MaxEvents
                            /\ events' = events + 1
                            /\ cursors' = m
                            /\ lastSample' = [lastSample EXCEPT ![mouseIdRef] = <<normX, normY>>]
                            /\ lastEvent' = "mousemove"
                            /\ Emit(m)
                   ELSE UNCHANGED <<cursors, lastSample, obsVars, events>>
                /\ UNCHANGED <<mouseIdRef, lastPeriodicUpdateRef>>
    /\ UNCHANGED <<appVars, sessionIdCounter, acquired, bornAt, now, extras>>

handleMouseUp ==
    /\ isRunning
    /\ IF mouseIdRef = "null"
       THEN UNCHANGED <<refVars, lastSample, bornAt, obsVars, events>>
       ELSE LET idStr == mouseIdRef
                m == MapDelete(cursors, idStr)
            IN  /\ events < MaxEvents
                /\ events' = events + 1
                /\ cursors' = m
                /\ mouseIdRef' = "null"
                /\ lastSample' = [lastSample EXCEPT ![idStr] = <<>>]
                /\ bornAt' = [bornAt EXCEPT ![idStr] = 0]
                /\ lastEvent' = "mouseup"
                /\ Emit(m)
                /\ UNCHANGED <<lastMouseMoveTimeRef, lastPeriodicUpdateRef>>
    /\ UNCHANGED <<appVars, sessionIdCounter, acquired, now, extras>>

\* Faulty variant: the operands of the interval are swapped.
loop_SwappedInterval ==
    /\ isRunning
    /\ IF settings.periodicUpdates /\ Len(cursors) > 0
          /\ lastPeriodicUpdateRef - now >= PERIODIC_UPDATE_INTERVAL
       THEN /\ lastPeriodicUpdateRef' = now
            /\ lastEvent' = "loop"
            /\ Emit(cursors)
       ELSE UNCHANGED <<lastPeriodicUpdateRef, obsVars>>
    /\ UNCHANGED <<appVars, cursors, mouseIdRef, lastMouseMoveTimeRef,
                   sessionIdCounter, histVars, now, extras, events>>

\* Faulty variant: the time since the last periodic frame is not looked at.
loop_NoInterval ==
    /\ isRunning
    /\ IF settings.periodicUpdates /\ Len(cursors) > 0
       THEN /\ lastPeriodicUpdateRef' = now
            /\ lastEvent' = "loop"
            /\ Emit(cursors)
       ELSE UNCHANGED <<lastPeriodicUpdateRef, obsVars>>
    /\ UNCHANGED <<appVars, cursors, mouseIdRef, lastMouseMoveTimeRef,
                   sessionIdCounter, histVars, now, extras, events>>

\* The requestAnimationFrame callback.  setVisualCursors only feeds the
\* display and is left out.
loop ==
    /\ isRunning
    /\ IF settings.periodicUpdates /\ Len(cursors) > 0
          /\ now - lastPeriodicUpdateRef >= PERIODIC_UPDATE_INTERVAL
       THEN /\ lastPeriodicUpdateRef' = now
            /\ lastEvent' = "loop"
            /\ Emit(cursors)
       ELSE UNCHANGED <<lastPeriodicUpdateRef, obsVars>>
    /\ UNCHANGED <<appVars, cursors, mouseIdRef, lastMouseMoveTimeRef,
                   sessionIdCounter, histVars, now, extras, events>>

-----------------------------------------------------------------------------
(* App: the socket, the running flag and the settings.  SettingsPanel is   *)
(* rendered while isRunning is false, TouchSurface while it is true; a     *)
(* TouchSurface that mounts starts from fresh refs.  The counters of       *)
(* tuioService are module-level and outlive every mount.                   *)

DEFAULT_SETTINGS ==
    [periodicUpdates |-> TRUE, fullBundle |-> TRUE, invertY |-> FALSE,
     coordinateScale |-> 1]

SettingsSet ==
    [periodicUpdates : BOOLEAN, fullBundle : BOOLEAN, invertY : BOOLEAN,
     coordinateScale : Scales]

FreshRefs ==
    /\ cursors' = <<>>
    /\ mouseIdRef' = "null"
    /\ lastMouseMoveTimeRef' = 0
    /\ lastPeriodicUpdateRef' = 0
    /\ lastSample' = NoKeys
    /\ bornAt' = NoBirths

Mount ==
    IF isRunning THEN UNCHANGED <<refVars, lastSample, bornAt>> ELSE FreshRefs

AppStep(name) ==
    /\ lastEvent' = name
    /\ NoEmit
    /\ UNCHANGED <<sessionIdCounter, acquired, now, events>>

\* setSettings(newSettings), called by SettingsPanel's handleChange with
\* one field changed.  The settings saved in localStorage and loaded when
\* App mounts differ from the defaults in the same way.
handleSaveSettings(newSettings) ==
    /\ ~isRunning
    /\ Cardinality({f \in DOMAIN settings : newSettings[f] # settings[f]}) = 1
    /\ extras < MaxExtras
    /\ extras' = extras + 1
    /\ settings' = newSettings
    /\ AppStep("saveSettings")
    /\ UNCHANGED <<isRunning, socket, otherWs, refVars, lastSample, bornAt>>

\* new WebSocket(url); setSocket(ws).  A socket still connecting that
\* `socket` held stays alive with its handlers (otherWs; one is tracked,
\* until it opens or fails).
handleStart ==
    /\ ~isRunning
    /\ socket' = "connecting"
    /\ IF socket = "connecting"
       THEN /\ extras < MaxExtras
            /\ extras' = extras + 1
            /\ otherWs' = "connecting"
       ELSE UNCHANGED <<extras, otherWs>>
    /\ AppStep("handleStart")
    /\ UNCHANGED <<settings, isRunning, refVars, lastSample, bornAt>>

\* ws.onopen of the socket held: setIsRunning(true)
wsOnOpen ==
    /\ socket = "connecting"
    /\ socket' = "open"
    /\ isRunning' = TRUE
    /\ Mount
    /\ AppStep("onopen")
    /\ UNCHANGED extras
    /\ UNCHANGED <<settings, otherWs>>

\* ws.onopen of an earlier socket: setIsRunning(true), `socket` as it is
otherWsOnOpen ==
    /\ otherWs = "connecting"
    /\ otherWs' = "none"
    /\ isRunning' = TRUE
    /\ Mount
    /\ AppStep("onopen-other")
    /\ UNCHANGED extras
    /\ UNCHANGED <<settings, socket>>

\* ws.onerror of the socket held or of an earlier one: setSocket(null)
wsOnError ==
    /\ socket \in {"connecting", "open"}
    /\ socket' = "null"
    /\ AppStep("onerror")
    /\ UNCHANGED extras
    /\ UNCHANGED <<settings, isRunning, otherWs, refVars, lastSample, bornAt>>

otherWsOnError ==
    /\ otherWs = "connecting"
    /\ otherWs' = "none"
    /\ socket' = "null"
    /\ AppStep("onerror-other")
    /\ UNCHANGED extras
    /\ UNCHANGED <<settings, isRunning, refVars, lastSample, bornAt>>

\* the peer closes the socket held: readyState CLOSED; onclose only logs
wsOnClose ==
    /\ socket = "open"
    /\ socket' = "closed"
    /\ AppStep("onclose")
    /\ UNCHANGED extras
    /\ UNCHANGED <<settings, isRunning, otherWs, refVars, lastSample, bornAt>>

handleOffline ==
    /\ ~isRunning
    /\ socket' = "null"
    /\ IF socket = "connecting"
       THEN /\ extras < MaxExtras
            /\ extras' = extras + 1
            /\ otherWs' = "connecting"
       ELSE UNCHANGED <<extras, otherWs>>
    /\ isRunning' = TRUE
    /\ Mount
    /\ AppStep("handleOffline")
    /\ UNCHANGED settings

\* onExit: socket.close(), setSocket(null), setIsRunning(false); the
\* TouchSurface unmounts and its refs are gone
handleStop ==
    /\ isRunning
    /\ socket' = "null"
    /\ isRunning' = FALSE
    /\ FreshRefs
    /\ AppStep("handleStop")
    /\ UNCHANGED extras
    /\ UNCHANGED <<settings, otherWs>>

-----------------------------------------------------------------------------
(* The clock.  Nothing reads it while no TouchSurface is mounted.          *)

AdvanceTime(d) ==
    /\ isRunning
    /\ extras < MaxExtras
    /\ now' = now + d
    /\ extras' = extras + 1
    /\ lastEvent' = "time"
    /\ NoEmit
    /\ UNCHANGED <<appVars, refVars, sessionIdCounter, histVars, events>>

-----------------------------------------------------------------------------
(* Initial states: the page with SettingsPanel shown.  The counters are    *)
(* those of a page just loaded, or of a page on which earlier sessions     *)
(* have run: <<sessionIdCounter, fseq, fseqCalls>>.                        *)

CounterStates ==
    { <<0, 0, <<0, 0>>>>,
      <<SESSION_ID_MAX - 1, MAX_INT31 - 1, <<32767, 65534>>>> }

Init ==
    /\ settings = DEFAULT_SETTINGS
    /\ isRunning = FALSE
    /\ socket = "null"
    /\ otherWs = "none"
    /\ \E c \in CounterStates :
          /\ sessionIdCounter = c[1]
          /\ fseq = c[2]
          /\ fseqCalls = c[3]
    /\ cursors = <<>>
    /\ mouseIdRef = "null"
    /\ lastMouseMoveTimeRef = 0
    /\ lastPeriodicUpdateRef = 0
    /\ now = StartTime
    /\ frame = <<>>
    /\ wire = <<>>
    /\ lastEvent = "init"
    /\ lastSample = NoKeys
    /\ sentFseq = <<-1, -1>>
    /\ unsentSince = 0
    /\ acquired = 0
    /\ bornAt = NoBirths
    /\ events = 0
    /\ extras = 0

Next ==
    \/ \E type \in {"start", "move", "end", "cancel"} :
          \E touches \in TouchLists(type) : processTouch(type, touches)
    \/ \E button \in {0, 2} : \E pt \in Points : handleMouseDown(button, pt)
    \/ \E pt \in Points : handleMouseMove(pt)
    \/ handleMouseUp
    \/ loop
    \/ \E s \in SettingsSet : handleSaveSettings(s)
    \/ handleStart
    \/ wsOnOpen
    \/ otherWsOnOpen
    \/ wsOnError
    \/ otherWsOnError
    \/ wsOnClose
    \/ handleOffline
    \/ handleStop
    \/ \E d \in Deltas : AdvanceTime(d)

Spec == Init /\ [][Next]_vars

-----------------------------------------------------------------------------
(* The functions of tuioService on their own: updateCursorPhysics applied  *)
(* to a cursor just created, over positions and timestamps (later than,    *)
(* equal to and earlier than the cursor's lastTime), and generatePacket    *)
(* applied to lists of no, one and several messages.  The cursor is held   *)
(* in `cursors` under one key, the sample and timestamp passed in          *)
(* `lastSample` and `now`, the messages and settings passed to             *)
(* generatePacket in `frame` and `settings`, its result in `wire`.         *)

ServiceKey == "0"
ServiceXs == {RatInt(0), RatInt(1)}
ServiceYs == {RatInt(0), Rat(1, 5)}
ServiceDeltas == {-1, 0, 1, 2, 1000}

ServiceMessages ==
    { <<>>,
      <<createSourceMessage>>,
      <<createAliveMessage(<<7>>)>>,
      <<createSourceMessage, createAliveMessage(<<7>>)>>,
      <<createAliveMessage(<<7>>), createSourceMessage>>,
      <<createSourceMessage, createAliveMessage(<<>>), createFseqMessage(0)>> }

InitService ==
    /\ settings = DEFAULT_SETTINGS
    /\ isRunning = FALSE
    /\ socket = "null"
    /\ otherWs = "none"
    /\ sessionIdCounter = getNextSessionId(0)
    /\ fseq = 0
    /\ fseqCalls = <<0, 0>>
    /\ \E x \in ServiceXs, y \in ServiceYs :
          cursors = <<[key |-> ServiceKey, cur |-> createNewCursor(x, y, 0, StartTime)]>>
    /\ mouseIdRef = "null"
    /\ lastMouseMoveTimeRef = 0
    /\ lastPeriodicUpdateRef = 0
    /\ now = StartTime
    /\ frame = <<>>
    /\ wire = <<>>
    /\ lastEvent = "init"
    /\ lastSample = NoKeys
    /\ sentFseq = <<-1, -1>>
    /\ unsentSince = 0
    /\ acquired = 1
    /\ bornAt = [NoBirths EXCEPT ![ServiceKey] = 1]
    /\ events = 0
    /\ extras = 0

\* cursor = updateCursorPhysics(cursor, newX, newY) with performance.now() = t
PhysicsStep(newX, newY, t) ==
    /\ wire = <<>>
    /\ events < MaxEvents
    /\ events' = events + 1
    /\ cursors' = <<[key |-> ServiceKey,
                     cur |-> updateCursorPhysics(cursors[1].cur, newX, newY, t)]>>
    /\ lastSample' = [lastSample EXCEPT ![ServiceKey] = <<newX, newY>>]
    /\ now' = t
    /\ lastEvent' = "updateCursorPhysics"
    /\ UNCHANGED <<appVars, sessionIdCounter, fseq, fseqCalls, mouseIdRef,
                   lastMouseMoveTimeRef, lastPeriodicUpdateRef, frame, wire,
                   sentFseq, unsentSince, acquired, bornAt, extras>>

\* payload = generatePacket(messages, s) with Date.now() = now
EncodeStep(messages, s) ==
    /\ lastEvent = "init"
    /\ settings' = s
    /\ frame' = messages
    /\ wire' = <<generatePacket(messages, s, now)>>
    /\ lastEvent' = "generatePacket"
    /\ UNCHANGED <<isRunning, socket, otherWs, sessionIdCounter, fseq, fseqCalls,
                   refVars, now, histVars, sentFseq, unsentSince, events, extras>>

NextService ==
    \/ \E newX \in ServiceXs, newY \in ServiceYs, d \in ServiceDeltas :
          PhysicsStep(newX, newY, cursors[1].cur.lastTime + d)
    \/ \E messages \in ServiceMessages, fullBundle \in BOOLEAN :
          EncodeStep(messages, [DEFAULT_SETTINGS EXCEPT !.fullBundle = fullBundle])

SpecService == InitService /\ [][NextService]_vars

-----------------------------------------------------------------------------
(* The running surface over time: one TouchSurface, its socket, single     *)
(* touches and the mouse, with the clock advancing by the heartbeat        *)
(* interval up to MaxNow.  requestAnimationFrame(loop) is registered again *)
(* at the end of every callback, so the loop keeps being called; the clock *)
(* keeps advancing.  These are the two fairness conditions.                *)

MaxTicks == 3
MaxNow == StartTime + MaxTicks * PERIODIC_UPDATE_INTERVAL

\* performance.now() has advanced by one heartbeat interval
Tick ==
    /\ isRunning
    /\ now < MaxNow
    /\ now' = now + PERIODIC_UPDATE_INTERVAL
    /\ lastEvent' = "time"
    /\ NoEmit
    /\ UNCHANGED <<appVars, refVars, sessionIdCounter, histVars, events, extras>>

\* The contact of key k leaves the input layer and no end event is
\* delivered (the touch is gone from the device's touch list; the mouse
\* button is released where no mouseup reaches the window).  No listener
\* is registered for this and the loop does not look for it: no code runs.
LoseContact(k) ==
    /\ isRunning
    /\ MapHas(cursors, k)
    /\ lastEvent' = "lost-" \o k
    /\ NoEmit
    /\ UNCHANGED <<appVars, refVars, sessionIdCounter, histVars, now, events, extras>>

LiveTouches(type) ==
    {<<[identifier |-> i, pt |-> p]>> : i \in TouchIds, p \in {<<6, 7>>}}

NextLive ==
    \/ handleStart
    \/ wsOnOpen
    \/ wsOnClose
    \/ \E type \in {"start", "end"} :
          \E touches \in LiveTouches(type) : processTouch(type, touches)
    \/ \E pt \in {<<-1, 1>>} : handleMouseDown(0, pt)
    \/ handleMouseUp
    \/ loop
    \/ Tick
    \/ \E k \in Keys : LoseContact(k)

SpecLive ==
    /\ Init
    /\ [][NextLive]_vars
    /\ WF_vars(loop)
    /\ WF_vars(Tick)

-----------------------------------------------------------------------------
(* Properties.  The arithmetic of the properties is written out here on    *)
(* its own, apart from the operators of the service.                       *)

SessionIds(m) == [i \in 1..Len(m) |-> m[i].cur.sessionId]

TouchKeys(touches) == {touches[n].identifier : n \in 1..Len(touches)}

IdSucc(c) == IF c = SESSION_ID_MAX THEN 0 ELSE c + 1

RECURSIVE IdSuccN(_, _)
IdSuccN(c, n) == IF n = 0 THEN c ELSE IdSuccN(IdSucc(c), n - 1)

Succ31(f) == IF f < MAX_INT31 THEN f + 1 ELSE 0

RECURSIVE Succ31N(_, _)
Succ31N(f, n) == IF n = 0 THEN f ELSE Succ31N(Succ31(f), n - 1)

SetMessageOf(c) ==
    [address |-> "/tuio/2Dcur",
     args |-> <<"set", c.sessionId, c.x, c.y, c.vx, c.vy, c.a>>]

\* C1. Session uniqueness: as long as no cursor present in the map has
\* stayed alive across more than 10000 later session acquisitions, no two
\* cursors of the map have the same sessionId.
C1_SessionIdsUnique ==
    (\A i \in 1..Len(cursors) : acquired - bornAt[cursors[i].key] <= SESSION_ID_MAX)
    => \A i, j \in 1..Len(cursors) :
          i # j => cursors[i].cur.sessionId # cursors[j].cur.sessionId

\* Two cursors are present, created on either side of the counter's wrap.
C1_Witness ==
    /\ Len(cursors) = 2
    /\ SessionIds(cursors) = <<SESSION_ID_MAX, 0>>

\* C2. Frame layout: a frame built is source, then one set message per
\* cursor of the map as it stands after the transition, in the map's order,
\* then one alive message with the sessionIds of those cursors in the same
\* order, then one fseq message, last.
C2_FrameLayout ==
    frame # <<>> =>
        LET n == Len(cursors)
        IN  /\ Len(frame) = n + 3
            /\ frame[1] = [address |-> "/tuio/2Dcur",
                           args |-> <<"source", "WebTUIO@webclient">>]
            /\ \A i \in 1..n : frame[1 + i] = SetMessageOf(cursors[i].cur)
            /\ frame[n + 2] = [address |-> "/tuio/2Dcur",
                               args |-> <<"alive">> \o SessionIds(cursors)]
            /\ frame[n + 3] = [address |-> "/tuio/2Dcur", args |-> <<"fseq", fseq>>]

\* A touchmove has built a frame over two cursors.
C2_Witness ==
    /\ lastEvent = "touchmove"
    /\ Len(cursors) = 2
    /\ Len(frame) = 5
    /\ \E k \in TouchIds : lastSample[k] # <<>>

\* C3. A start (touchstart or mousedown) for an identifier that is already
\* in the map leaves that identifier's cursor as it is, and a start acquires
\* one session id per identifier that was absent, no more.
C3_StartKeepsActiveCursor ==
    [][ /\ \A touches \in TouchLists("start") :
              processTouch("start", touches) =>
                  /\ \A k \in TouchKeys(touches) \cap MapKeys(cursors) :
                        MapGet(cursors', k) = MapGet(cursors, k)
                  /\ acquired' - acquired
                        = Cardinality(TouchKeys(touches) \ MapKeys(cursors))
        /\ \A pt \in Points :
              (handleMouseDown(0, pt) /\ MapHas(cursors, MouseKey)) =>
                  /\ MapGet(cursors', MouseKey) = MapGet(cursors, MouseKey)
                  /\ acquired' = acquired
      ]_vars

\* C4. A touchmove whose identifiers have no cursor in the map leaves the
\* map and the session counter as they were; a touchmove never adds or
\* removes a key, never acquires a session id, and leaves the cursors of
\* the other identifiers alone.
C4_MoveOfAbsentIsNoOp ==
    [][ \A touches \in TouchLists("move") :
            processTouch("move", touches) =>
                /\ sessionIdCounter' = sessionIdCounter
                /\ acquired' = acquired
                /\ [i \in 1..Len(cursors') |-> cursors'[i].key]
                      = [i \in 1..Len(cursors) |-> cursors[i].key]
                /\ \A k \in MapKeys(cursors) \ TouchKeys(touches) :
                      MapGet(cursors', k) = MapGet(cursors, k)
                /\ (TouchKeys(touches) \cap MapKeys(cursors) = {}) => cursors' = cursors
      ]_vars

\* A touchmove for an identifier without a cursor has been handled while
\* another cursor was in the map: no cursor has received a move sample.
C4_Witness ==
    /\ lastEvent = "touchmove"
    /\ Len(cursors) = 1
    /\ frame # <<>>
    /\ \A k \in Keys : lastSample[k] = <<>>

\* C5. A touchend, touchcancel or mouseup removes the entries of its
\* identifiers from the map and nothing else, the frame it builds lists the
\* sessionIds of the entries that remain and no other, and for identifiers
\* that are not in the map the map stays as it was.
C5_EndRemovesCursor ==
    [][ /\ \A type \in {"end", "cancel"} : \A touches \in TouchLists(type) :
              processTouch(type, touches) =>
                  /\ cursors' = SelectSeq(cursors,
                                    LAMBDA e : e.key \notin TouchKeys(touches))
                  /\ TouchKeys(touches) \cap MapKeys(cursors') = {}
                  /\ (TouchKeys(touches) \cap MapKeys(cursors) = {}) => cursors' = cursors
                  /\ frame'[Len(frame') - 1].args = <<"alive">> \o SessionIds(cursors')
                  /\ Len(frame') = Len(cursors') + 3
        /\ (handleMouseUp /\ mouseIdRef # "null") =>
              /\ cursors' = SelectSeq(cursors, LAMBDA e : e.key # MouseKey)
              /\ ~MapHas(cursors', MouseKey)
              /\ frame'[Len(frame') - 1].args = <<"alive">> \o SessionIds(cursors')
              /\ Len(frame') = Len(cursors') + 3
      ]_vars

\* Of two cursors created, a touchend has removed one.
C5_Witness ==
    /\ lastEvent = "touchend"
    /\ acquired = 2
    /\ Len(cursors) = 1
    /\ Len(frame) = 4

C7_FseqWraps ==
    /\ fseq \in 0..MAX_INT31
    /\ fseq = (fseqCalls[1] % 32768) * 65536 + fseqCalls[2]
    /\ frame # <<>> => frame[Len(frame)].args[2] = fseq
    /\ fseqCalls = <<32768, 0>> => fseq = 0

\* The 2^31-th call has been made and its frame carries 0.
C7_Witness ==
    /\ fseqCalls = <<32768, 0>>
    /\ frame # <<>>
    /\ frame[Len(frame)].args = <<"fseq", 0>>

\* C8. Session acquisition sequence: the n-th cursor created by a start
\* event gets the n-th successor of the counter, where the successor of c
\* is c + 1 and that of 10000 is 0, and the counter ends at the last id
\* assigned; the counter changes with an acquisition only; every sessionId
\* lies in 0..10000; the first id assigned from a counter of 0 is 1.
C8_AcquisitionSequence ==
    [][ /\ \A touches \in TouchLists("start") :
              processTouch("start", touches) =>
                  /\ \A n \in 1..Len(touches) :
                        MapGet(cursors', touches[n].identifier).sessionId
                            = IdSuccN(sessionIdCounter, n)
                  /\ sessionIdCounter' = IdSuccN(sessionIdCounter, Len(touches))
        /\ \A pt \in Points :
              handleMouseDown(0, pt) =>
                  /\ MapGet(cursors', MouseKey).sessionId = IdSucc(sessionIdCounter)
                  /\ sessionIdCounter' = IdSucc(sessionIdCounter)
        /\ sessionIdCounter' # sessionIdCounter => acquired' > acquired
        /\ sessionIdCounter' \in 0..SESSION_ID_MAX
        /\ \A i \in 1..Len(cursors') : cursors'[i].cur.sessionId \in 0..SESSION_ID_MAX
        /\ (sessionIdCounter = 0 /\ acquired' > acquired) =>
              \E i \in 1..Len(cursors') : cursors'[i].cur.sessionId = 1
      ]_vars

\* A mousedown has been given the id 0, the one after 10000.
C8_Witness ==
    /\ lastEvent = "mousedown"
    /\ acquired = 2
    /\ MapHas(cursors, MouseKey)
    /\ MapGet(cursors, MouseKey).sessionId = 0

\* C9. After a mouse move that arrived less than 16 ms after the move
\* accepted before it, the cursor of the map holds the position of that
\* sample.
C9_ThrottledSampleUpdatesState ==
    (/\ lastEvent = "mousemove-throttled"
     /\ lastMouseMoveTimeRef > 0
     /\ MapHas(cursors, MouseKey)
     /\ lastSample[MouseKey] # <<>>)
    => <<MapGet(cursors, MouseKey).x, MapGet(cursors, MouseKey).y>>
          = lastSample[MouseKey]

\* C10. A heartbeat frame, the one send that needs no further input, when
\* handed to the transport carries for every cursor of the map the position
\* of the last move sample received for it.
C10_HeartbeatCarriesLatestSample ==
    (lastEvent = "loop" /\ wire # <<>>) =>
        \A i \in 1..Len(cursors) :
            lastSample[cursors[i].key] # <<>> =>
                <<frame[1 + i].args[3], frame[1 + i].args[4]>>
                    = lastSample[cursors[i].key]

\* Rationals of the properties: p and q name the same number
QEq(p, q) == p[1] * q[2] = q[1] * p[2]

InUnit(p) == p[2] > 0 /\ 0 <= p[1] /\ p[1] <= p[2]

\* v clamped to 0..size, over size, as a fraction not reduced
ClampedOver(v, size) ==
    IF v <= 0 THEN <<0, 1>> ELSE IF v >= size THEN <<1, 1>> ELSE <<v, size>>

MoveEvents == {"touchmove", "mousemove"}

\* C11. Two frames handed to the transport by move events (touchmove,
\* mousemove) are at least 16 ms apart: a move frame sent at `now` is not
\* followed by a move frame sent at a `now'` less than 16 ms later.
C11_MoveFramesApart ==
    [][ (/\ lastEvent \in MoveEvents /\ wire # <<>>
         /\ lastEvent' \in MoveEvents /\ wire' # <<>>)
        => now' - now >= MOUSE_MOVE_THROTTLE
      ]_vars

\* C12. Heartbeat gating: the loop builds a frame only with periodicUpdates
\* set, a cursor in the map and at least 33 ms since the time kept in
\* lastPeriodicUpdateRef, which it then sets to the time of the frame;
\* lastPeriodicUpdateRef changes in no other way while the surface is
\* mounted, so it is the time of the previous heartbeat frame of the
\* surface (0 before the first).
C12_HeartbeatGating ==
    [][ /\ lastEvent' = "loop" =>
              /\ settings.periodicUpdates
              /\ Len(cursors) > 0
              /\ cursors' = cursors
              /\ Len(frame') = Len(cursors) + 3
              /\ now - lastPeriodicUpdateRef >= 33
              /\ lastPeriodicUpdateRef' = now
              /\ now' = now
        /\ lastPeriodicUpdateRef' # lastPeriodicUpdateRef =>
              \/ lastEvent' = "loop"
              \/ lastEvent' \in {"handleStop", "handleOffline", "onopen", "onopen-other"}
                 /\ lastPeriodicUpdateRef' = 0
      ]_vars

\* Two heartbeat frames have followed the frame of the one input event,
\* the second 33 ms after the first.
C12_Witness ==
    /\ lastEvent = "loop"
    /\ events = 1
    /\ fseqCalls \in {<<0, 3>>, <<32768, 1>>}
    /\ now = StartTime + 33
    /\ lastPeriodicUpdateRef = now

\* C13. Transport unavailable: a payload is handed over only when the
\* socket held is open, and it is the frame just built and nothing more;
\* a frame built while the socket is open is handed over and lists every
\* cursor of the map; whatever the socket, a touchstart leaves the map with
\* the keys it had and those of the event, a touchmove with the keys it
\* had, a touchend or touchcancel with the keys it had less those of the
\* event.
C13_TransportUnavailable ==
    [][ /\ wire' # <<>> =>
              /\ socket = "open"
              /\ Len(wire') = 1
              /\ wire'[1].packets = frame'
        /\ (frame' # <<>> /\ socket # "open") => wire' = <<>>
        /\ (frame' # <<>> /\ socket = "open") =>
              /\ wire' # <<>>
              /\ Len(frame') = Len(cursors') + 3
              /\ \A i \in 1..Len(cursors') :
                    frame'[1 + i].args[2] = cursors'[i].cur.sessionId
        /\ \A type \in {"start", "move", "end", "cancel"} :
              \A touches \in TouchLists(type) :
                  processTouch(type, touches) =>
                      MapKeys(cursors') =
                          CASE type = "start" -> MapKeys(cursors) \cup TouchKeys(touches)
                            [] type = "move" -> MapKeys(cursors)
                            [] OTHER -> MapKeys(cursors) \ TouchKeys(touches)
      ]_vars

\* Of two frames built by input events the first was built while the
\* socket was not open and not handed over; the second, built once the
\* socket is open, is handed over with both cursors.
C13_Witness ==
    /\ wire # <<>>
    /\ events = 2
    /\ sentFseq[1] = -1
    /\ Len(cursors) = 2
    /\ Len(wire[1].packets) = 5

\* C14. Bundling policy of generatePacket: with fullBundle the payload is
\* a bundle with a timeTag whose packets are the messages in their order;
\* without fullBundle and with one message it is that message, with no
\* packets field; without fullBundle and with two or more messages it is a
\* bundle whose packets are the messages in their order.
C14_BundlingPolicy ==
    lastEvent = "generatePacket" =>
        LET payload == wire[1]
        IN  /\ settings.fullBundle =>
                  /\ "timeTag" \in DOMAIN payload
                  /\ payload.timeTag = now
                  /\ payload.packets = frame
            /\ (~settings.fullBundle /\ Len(frame) = 1) =>
                  /\ payload = frame[1]
                  /\ DOMAIN payload = {"address", "args"}
            /\ (~settings.fullBundle /\ Len(frame) >= 2) =>
                  /\ "packets" \in DOMAIN payload
                  /\ payload.packets = frame

\* One message has been encoded without fullBundle.
C14_Witness ==
    /\ lastEvent = "generatePacket"
    /\ ~settings.fullBundle
    /\ Len(frame) = 1
    /\ wire = <<[address |-> "/tuio/2Dcur", args |-> <<"alive", 7>>]>>

\* C15, as stated. A payload of generatePacket that has a packets list has
\* a timeTag field.
C15_PacketsHaveTimeTag ==
    (lastEvent = "generatePacket" /\ "packets" \in DOMAIN wire[1])
    => "timeTag" \in DOMAIN wire[1]

\* C15, amended. A payload of generatePacket that has a packets list is
\* {timeTag, packets} when fullBundle is set, and {bundle: true, packets},
\* with no timeTag, when fullBundle is not set and the number of messages
\* is not 1.
C15_EnvelopeShape ==
    (lastEvent = "generatePacket" /\ "packets" \in DOMAIN wire[1]) =>
        /\ wire[1].packets = frame
        /\ settings.fullBundle => DOMAIN wire[1] = {"timeTag", "packets"}
        /\ ~settings.fullBundle =>
              /\ Len(frame) # 1
              /\ DOMAIN wire[1] = {"bundle", "packets"}
              /\ wire[1].bundle = TRUE

\* No message has been encoded without fullBundle.
C15_Witness ==
    /\ lastEvent = "generatePacket"
    /\ ~settings.fullBundle
    /\ frame = <<>>
    /\ wire = <<[bundle |-> TRUE, packets |-> <<>>]>>

\* C16. Zero-cursor frame: a frame built while the map is empty is source,
\* alive with no ids, fseq, and has no set message.
C16_ZeroCursorFrame ==
    (frame # <<>> /\ cursors = <<>>) =>
        /\ Len(frame) = 3
        /\ frame[1].args = <<"source", "WebTUIO@webclient">>
        /\ frame[2].args = <<"alive">>
        /\ frame[3].args = <<"fseq", fseq>>
        /\ \A i \in 1..Len(frame) :
              frame[i].address = "/tuio/2Dcur" /\ frame[i].args[1] # "set"

\* The end event of the one active cursor has built a frame.
C16_Witness ==
    /\ lastEvent \in {"touchend", "mouseup"}
    /\ events = 2
    /\ acquired = 1
    /\ cursors = <<>>
    /\ Len(frame) = 3

\* C17. dt guard of updateCursorPhysics: called with a timestamp at most
\* 1 ms after the cursor's lastTime (equal and earlier ones too), it leaves
\* sessionId, vx, vy and a as they were and sets x, y to the new position
\* and lastTime to the timestamp.
C17_DtGuard ==
    [][ (lastEvent' = "updateCursorPhysics"
         /\ now' - cursors[1].cur.lastTime <= 1) =>
            LET old == cursors[1].cur
                new == cursors'[1].cur
            IN  /\ new.vx = old.vx
                /\ new.vy = old.vy
                /\ new.a = old.a
                /\ new.sessionId = old.sessionId
                /\ <<new.x, new.y>> = lastSample'[ServiceKey]
                /\ new.lastTime = now'
      ]_vars

\* A cursor moving at vx = 1 has been moved back to x = 0 by a call within
\* the guard: the velocity is still 1.
C17_Witness ==
    /\ lastEvent = "updateCursorPhysics"
    /\ events = 2
    /\ cursors[1].cur.x = <<0, 1>>
    /\ cursors[1].cur.vx = <<1, 1>>
    /\ cursors[1].cur.lastTime \in {StartTime + 999, StartTime + 1000, StartTime + 1001}

\* The square of an acceleration magnitude sqrt(dvx^2 + dvy^2) / dt
AccelSquared(a) ==
    Rat((a.dvx[1] * a.dvx[1] * a.dvy[2] * a.dvy[2]
         + a.dvy[1] * a.dvy[1] * a.dvx[2] * a.dvx[2]) * a.dt[2] * a.dt[2],
        a.dvx[2] * a.dvx[2] * a.dvy[2] * a.dvy[2] * a.dt[1] * a.dt[1])

\* C18. Finite-difference estimate of updateCursorPhysics: for a call more
\* than 1 ms after the cursor's lastTime, vx' * dt = newX - x,
\* vy' * dt = newY - y and a' = sqrt((vx'-vx)^2 + (vy'-vy)^2) / dt, with dt
\* in seconds and no clamping; from (x, y, vx, vy) = (0, 0, 0, 0), the new
\* position (1, 0) after 1 s gives vx' = 1, vy' = 0, a' = 1.
C18_FiniteDifference ==
    [][ (lastEvent' = "updateCursorPhysics"
         /\ now' - cursors[1].cur.lastTime > 1) =>
            LET old == cursors[1].cur
                new == cursors'[1].cur
                ms == now' - old.lastTime
                newX == lastSample'[ServiceKey][1]
                newY == lastSample'[ServiceKey][2]
            IN  /\ new.x = newX /\ new.y = newY /\ new.lastTime = now'
                /\ QEq(<<new.vx[1] * ms, new.vx[2] * MS_PER_SECOND>>,
                       RatSub(newX, old.x))
                /\ QEq(<<new.vy[1] * ms, new.vy[2] * MS_PER_SECOND>>,
                       RatSub(newY, old.y))
                /\ QEq(new.a.dvx, RatSub(new.vx, old.vx))
                /\ QEq(new.a.dvy, RatSub(new.vy, old.vy))
                /\ QEq(new.a.dt, <<ms, MS_PER_SECOND>>)
                /\ (/\ old.x = <<0, 1>> /\ old.y = <<0, 1>>
                    /\ old.vx = <<0, 1>> /\ old.vy = <<0, 1>>
                    /\ newX = <<1, 1>> /\ newY = <<0, 1>>
                    /\ ms = MS_PER_SECOND)
                   => /\ new.vx = <<1, 1>>
                      /\ new.vy = <<0, 1>>
                      /\ AccelSquared(new.a) = <<1, 1>>
      ]_vars

\* The example of the claim: a cursor created at (0, 0) has been moved to
\* (1, 0) one second later.
C18_Witness ==
    /\ lastEvent = "updateCursorPhysics"
    /\ events = 1
    /\ now = StartTime + 1000
    /\ cursors[1].cur.x = <<1, 1>> /\ cursors[1].cur.y = <<0, 1>>
    /\ cursors[1].cur.vx = <<1, 1>> /\ cursors[1].cur.vy = <<0, 1>>
    /\ AccelSquared(cursors[1].cur.a) = <<1, 1>>

\* The position stored for the pointer position pt
StoredAt(c, pt) ==
    LET nx == ClampedOver(pt[1] - RectLeft, RectWidth)
        ny == ClampedOver(pt[2] - RectTop, RectHeight)
    IN  /\ QEq(c.x, nx)
        /\ QEq(c.y, IF settings.invertY THEN <<ny[2] - ny[1], ny[2]>> ELSE ny)

\* C19. Coordinate normalization: the x and y of every cursor of the map
\* are in [0,1] whatever the pointer position; the position a start or
\* move step stores for a pointer is the offset from the bounding box
\* over its size clamped to [0,1], with y replaced by 1 - y when invertY
\* is set (0.2 is stored as 0.8) and as it is when invertY is not set.
C19_Normalization ==
    [][ /\ \A i \in 1..Len(cursors') :
              InUnit(cursors'[i].cur.x) /\ InUnit(cursors'[i].cur.y)
        /\ \A type \in {"start", "move"} : \A touches \in TouchLists(type) :
              processTouch(type, touches) =>
                 \A n \in 1..Len(touches) :
                    MapHas(cursors', touches[n].identifier) =>
                       StoredAt(MapGet(cursors', touches[n].identifier), touches[n].pt)
        /\ \A pt \in Points :
              /\ (handleMouseDown(0, pt) /\ lastEvent' = "mousedown")
                    => StoredAt(MapGet(cursors', MouseKey), pt)
              /\ (handleMouseMove(pt) /\ lastEvent' = "mousemove")
                    => StoredAt(MapGet(cursors', MouseKey), pt)
      ]_vars

\* With invertY set, a touch at 0.2 of the height, left of the box, is
\* stored at (0, 0.8).
C19_Witness ==
    /\ settings.invertY
    /\ lastEvent = "touchstart"
    /\ Len(cursors) = 1
    /\ cursors[1].cur.x = <<0, 1>>
    /\ cursors[1].cur.y = <<4, 5>>

C21_LostContactRemoved ==
    \A k \in Keys : (lastEvent = "lost-" \o k) ~> ~MapHas(cursors, k)

\* The session id of key k is listed in the alive message of the frame
AliveLists(k) ==
    /\ frame # <<>>
    /\ \E n \in 2..Len(frame[Len(frame) - 1].args) :
          frame[Len(frame) - 1].args[n] = MapGet(cursors, k).sessionId

HeartbeatDue(k) ==
    /\ isRunning
    /\ settings.periodicUpdates
    /\ socket = "open"
    /\ MapHas(cursors, k)

\* C26. Heartbeat liveness: while periodicUpdates is set, the socket is
\* open and the cursor of key k stays in the map, a frame built by the loop
\* that lists the cursor in alive is sent again and again as long as the
\* clock advances, with no input event needed.
C26_HeartbeatLiveness ==
    \A k \in Keys :
        (HeartbeatDue(k) /\ now < MaxNow)
        ~> \/ ~HeartbeatDue(k)
           \/ /\ lastEvent = "loop"
              /\ wire # <<>>
              /\ wire[1].packets = frame
              /\ AliveLists(k)

\* The third heartbeat of a cursor started before the first tick.
C26_Witness ==
    /\ lastEvent = "loop"
    /\ now = MaxNow
    /\ lastPeriodicUpdateRef = MaxNow
    /\ wire # <<>>
    /\ events = 1
    /\ sentFseq \in {<<2, 3>>, <<0, 1>>}
    /\ AliveLists(cursors[1].key)

\* C22. Per-producer counters: on a page just loaded, every TouchSurface
\* that mounts starts from a session counter and an fseq that no earlier
\* TouchSurface has advanced, so it produces the ids and fseq values the
\* first one produced.
C22_MountStartsFromFreshCounters ==
    [][ (~isRunning /\ isRunning' /\ fseqCalls[1] = 0)
        => (sessionIdCounter' = 0 /\ fseq' = 0) ]_vars

Kinematics(c) == <<c.vx, c.vy, c.a>>

\* C23. Kinematic fields: a cursor enters the map with vx = vy = 0 and
\* a = 0, in a start step; vx, vy, a of a cursor in the map change only in
\* a move step for its own identifier; a heartbeat leaves the map and the
\* session counter as they are.
C23_KinematicsOwnedByMoves ==
    [][ /\ \A k \in Keys :
              MapHas(cursors', k) =>
                 LET new == MapGet(cursors', k)
                 IN  IF MapHas(cursors, k)
                        /\ MapGet(cursors, k).sessionId = new.sessionId
                     THEN Kinematics(new) # Kinematics(MapGet(cursors, k)) =>
                             \/ lastEvent' = "mousemove" /\ k = MouseKey
                             \/ /\ lastEvent' = "touchmove"
                                /\ \E touches \in TouchLists("move") :
                                      /\ processTouch("move", touches)
                                      /\ k \in TouchKeys(touches)
                     ELSE /\ lastEvent' \in {"touchstart", "mousedown"}
                          /\ new.vx = <<0, 1>> /\ new.vy = <<0, 1>>
                          /\ AccelSquared(new.a) = <<0, 1>>
        /\ lastEvent' = "loop" =>
              /\ cursors' = cursors
              /\ sessionIdCounter' = sessionIdCounter
              /\ acquired' = acquired
      ]_vars

\* A heartbeat has sent a cursor that a move had given a velocity.
C23_Witness ==
    /\ lastEvent = "loop"
    /\ events = 2
    /\ wire # <<>>
    /\ Len(cursors) = 1
    /\ cursors[1].cur.vx # <<0, 1>>
    /\ frame[2].args[5] = cursors[1].cur.vx

\* C24. Timestamp monotonicity: the lastTime of a cursor never decreases
\* while the cursor is in the map, through every move sample, those
\* handled by the dt <= 0.001 guard included; it is never ahead of the
\* clock.
C24_LastTimeMonotonic ==
    [][ \A k \in Keys :
           /\ MapHas(cursors', k) => MapGet(cursors', k).lastTime <= now'
           /\ (/\ MapHas(cursors, k) /\ MapHas(cursors', k)
               /\ MapGet(cursors', k).sessionId = MapGet(cursors, k).sessionId)
              => MapGet(cursors', k).lastTime >= MapGet(cursors, k).lastTime
      ]_vars

\* Two cursors started together have been moved at a later time: the
\* lastTime of both is the time of the move.
C24_Witness ==
    /\ lastEvent \in MoveEvents
    /\ events = 2
    /\ Len(cursors) = 2
    /\ cursors[1].cur.lastTime = now
    /\ cursors[2].cur.lastTime = now
    /\ cursors[1].cur.vx # <<0, 1>>
    /\ now > StartTime

\* C25. Orphan events: a touchmove, touchend or touchcancel whose
\* identifiers have no cursor in the map changes nothing: no frame is
\* built, nothing is sent and fseq is not advanced.
C25_OrphanEventsIgnored ==
    [][ \A type \in {"move", "end", "cancel"} : \A touches \in TouchLists(type) :
           (processTouch(type, touches)
            /\ TouchKeys(touches) \cap MapKeys(cursors) = {})
           => UNCHANGED <<cursors, fseq, fseqCalls, sentFseq>> ]_vars

FseqMessages(messages) ==
    {i \in 1..Len(messages) : messages[i].args[1] = "fseq"}

\* C27. One frame per input event: a touch event with k changed touches
\* applies the k transitions and then builds one frame over the resulting
\* map, advancing fseq by exactly 1 with one call of createFseqMessage; the
\* payload handed to the socket carries that frame and that fseq.
C27_OneFramePerEvent ==
    [][ \A type \in {"start", "move", "end", "cancel"} :
        \A touches \in TouchLists(type) :
           processTouch(type, touches) =>
              /\ fseq' = Succ31(fseq)
              /\ fseqCalls' = CallsNext(fseqCalls)
              /\ Len(frame') = Len(cursors') + 3
              /\ FseqMessages(frame') = {Len(frame')}
              /\ frame'[Len(frame')].args = <<"fseq", fseq'>>
              /\ \A i \in 1..Len(cursors') :
                    frame'[1 + i] = SetMessageOf(cursors'[i].cur)
              /\ type = "start" => TouchKeys(touches) \subseteq MapKeys(cursors')
              /\ type \in {"end", "cancel"} =>
                    TouchKeys(touches) \cap MapKeys(cursors') = {}
              /\ wire' # <<>> =>
                    /\ wire'[1].packets = frame'
                    /\ sentFseq'[2] = fseq'
      ]_vars

\* The first event of a page just loaded is a touchstart with two changed
\* touches: one frame with two set messages and fseq 1 has been sent.
C27_Witness ==
    /\ lastEvent = "touchstart"
    /\ events = 1
    /\ Len(cursors) = 2
    /\ fseqCalls = <<0, 1>>
    /\ fseq = 1
    /\ Len(frame) = 5
    /\ wire # <<>>

\* C28. Session ID stability: as long as no start event for its identifier
\* intervenes, a cursor in the map keeps its sessionId through every step,
\* moves included, and the set message of every frame built for it carries
\* that id.
C28_SessionIdStable ==
    [][ \A k \in Keys :
           (/\ MapHas(cursors, k) /\ MapHas(cursors', k)
            /\ bornAt'[k] = bornAt[k]) =>
              LET id == MapGet(cursors, k).sessionId
              IN  /\ MapGet(cursors', k).sessionId = id
                  /\ frame' # <<>> =>
                        \E i \in 2..(Len(frame') - 2) :
                           /\ frame'[i].args[1] = "set"
                           /\ frame'[i].args[2] = id
                           /\ frame'[i].args[3] = MapGet(cursors', k).x
      ]_vars

\* A mouse move has given the cursor of session id 1 a velocity: its set
\* message still carries 1.
C28_Witness ==
    /\ lastEvent = "mousemove"
    /\ events = 2
    /\ cursors[1].cur.sessionId = 1
    /\ cursors[1].cur.vx # <<0, 1>>
    /\ frame[2].args[2] = 1

\* C29. Per-identifier isolation: a touch event leaves the map entry of
\* every identifier that is not among its changed touches as it is, and a
\* mouse event leaves the entry of every touch identifier as it is; the
\* mouse key is no touch identifier.
C29_Isolation ==
    [][ /\ MouseKey \notin TouchIds
        /\ \A type \in {"start", "move", "end", "cancel"} :
           \A touches \in TouchLists(type) :
              processTouch(type, touches) =>
                 \A B \in MapKeys(cursors) \ TouchKeys(touches) :
                    MapHas(cursors', B) /\ MapGet(cursors', B) = MapGet(cursors, B)
        /\ lastEvent' \in {"mousedown", "mousemove", "mouseup"} =>
              \A B \in MapKeys(cursors) \ {MouseKey} :
                 MapHas(cursors', B) /\ MapGet(cursors', B) = MapGet(cursors, B)
      ]_vars

\* Of two touches started together, the first has ended: the cursor of
\* the second is still there, as it was created.
C29_Witness ==
    /\ lastEvent = "touchend"
    /\ events = 2
    /\ acquired = 2
    /\ Len(cursors) = 1
    /\ cursors[1].key = "1"
    /\ bornAt["1"] = 2
    /\ cursors[1].cur.lastTime = StartTime

Started == {k \in Keys : bornAt[k] # 0}

\* C30. Lifecycle: an identifier has an entry in the map exactly when the
\* last start, end or cancel event the TouchSurface has handled for it was
\* a start; the map has one entry per such identifier and no more.
C30_Lifecycle ==
    /\ \A k \in Keys : MapHas(cursors, k) <=> k \in Started
    /\ Len(cursors) = Cardinality(MapKeys(cursors))
    /\ Len(cursors) <= Cardinality(Started)

\* An identifier has been started twice with no end in between: one entry.
C30_Witness ==
    /\ lastEvent = "touchstart"
    /\ events = 2
    /\ acquired = 2
    /\ Len(cursors) = 1

\* C31. Every frame built by the handlers and the loop has at least the
\* three messages source, alive and fseq, so the payload handed to the
\* socket is never a bare message: it has a packets list holding the whole
\* frame, with fullBundle set and without.
C31_SentPayloadIsWrapper ==
    /\ frame # <<>> =>
          /\ Len(frame) >= 3
          /\ frame[1].args[1] = "source"
          /\ frame[Len(frame) - 1].args[1] = "alive"
          /\ frame[Len(frame)].args[1] = "fseq"
    /\ wire # <<>> =>
          /\ Len(wire) = 1
          /\ "packets" \in DOMAIN wire[1]
          /\ "address" \notin DOMAIN wire[1]
          /\ "args" \notin DOMAIN wire[1]
          /\ Len(wire[1].packets) >= 3
          /\ wire[1].packets = frame
          /\ DOMAIN wire[1] = IF settings.fullBundle
                              THEN {"timeTag", "packets"}
                              ELSE {"bundle", "packets"}

\* Without fullBundle, the smallest frame (no cursor) has been sent.
C31_Witness ==
    /\ ~settings.fullBundle
    /\ socket = "open"
    /\ cursors = <<>>
    /\ Len(frame) = 3
    /\ wire = <<[bundle |-> TRUE, packets |-> frame]>>

====
